---- MODULE Spec2Model ----
(***************************************************************************)
(* A model of madminer/utils/various.py.  The module holds six independent *)
(* helper functions; each one is modelled as its own small state machine   *)
(* (one action per statement or loop iteration) with its own variables and *)
(* its own specification.  The variables of the functions a specification  *)
(* does not exercise stay at their idle values.                            *)
(***************************************************************************)
EXTENDS Integers, Sequences, FiniteSets, TLC

VARIABLES
    \* create_missing_folders
    fs,            \* the filesystem namespace: path -> "none" | "dir" | "file"
    fs0,           \* the filesystem when the running call was entered
    fsFirst,       \* the filesystem before the first call
    folders,       \* the argument: a list of paths
    cf_i,          \* position of the for loop (1-based)
    cf_pc,         \* "idle" | "loop" | "returned" | "raised"
    cf_err,        \* the exception raised, if any
    cf_call,       \* 1: first call, 2: the same call repeated
    \* shuffle
    arrays,        \* the argument list: each None or an array (its rows)
    sh_i,          \* position of the for loop (1-based)
    permutation,   \* None, or the permutation drawn
    n_samples,     \* None (-1), or the sample count of the first array
    shuffled_arrays,
    sh_pc,         \* "idle" | "loop" | "returned" | "raised"
    sh_result,     \* what the call returned (NoResult until it returns)
    \* balance_thetas
    py,            \* the interpreter's major version, 2 or 3
    theta_sets_types,
    theta_sets_values,
    orig_types,    \* the arguments as passed
    orig_values,
    n_sets,
    bt_i,          \* position of the for loop (1-based)
    bt_pc,         \* "idle" | "max" | "loop" | "returned" | "raised"
    bt_err,
    \* format_benchmark
    parameters,    \* ordered mapping: a list of <<key, value>>
    precision,
    fb_i,
    output,        \* the string built so far, as its list of pieces
    fb_pc,         \* "idle" | "loop" | "returned"
    \* call_command
    cmd,
    log_file,      \* "None" or a path
    cc_pc,         \* "idle" | "open" | "spawn" | "wait" | "leave" | "check"
                   \* | "returned" | "raised"
    logHandle,     \* "none" | "open" | "closed"
    logContent,    \* what the log file holds: "absent" | "old" | "" | output
    child,         \* "none" | "running" | "exited"
    exitcode,
    captured,      \* <<out, err>> read from the pipes
    cc_result,     \* the value returned / the exception raised
    \* load_and_check
    filename,      \* "None" or a path
    loadable,      \* whether np.load can read the file
    file_data,     \* the array stored in the file
    warning_threshold,
    data,          \* the array loaded
    lc_pc,         \* "idle" | "load" | "count" | "minmax" | "range"
                   \* | "returned" | "raised"
    warnings,      \* the log warnings emitted, in order
    smallest,
    largest,
    lc_result

foldersVars == <<fs, fs0, fsFirst, folders, cf_i, cf_pc, cf_err, cf_call>>
shuffleVars == <<arrays, sh_i, permutation, n_samples, shuffled_arrays, sh_pc, sh_result>>
thetaVars == <<py, theta_sets_types, theta_sets_values, orig_types, orig_values,
               n_sets, bt_i, bt_pc, bt_err>>
formatVars == <<parameters, precision, fb_i, output, fb_pc>>
commandVars == <<cmd, log_file, cc_pc, logHandle, logContent, child, exitcode,
                 captured, cc_result>>
loadVars == <<filename, loadable, file_data, warning_threshold, data, lc_pc,
              warnings, smallest, largest, lc_result>>
vars == <<foldersVars, shuffleVars, thetaVars, formatVars, commandVars, loadVars>>

\* The variables of the other functions.
exceptFolders == <<shuffleVars, thetaVars, formatVars, commandVars, loadVars>>
exceptShuffle == <<foldersVars, thetaVars, formatVars, commandVars, loadVars>>
exceptThetas == <<foldersVars, shuffleVars, formatVars, commandVars, loadVars>>
exceptFormat == <<foldersVars, shuffleVars, thetaVars, commandVars, loadVars>>
exceptCommand == <<foldersVars, shuffleVars, thetaVars, formatVars, loadVars>>
exceptLoad == <<foldersVars, shuffleVars, thetaVars, formatVars, commandVars>>

NoneStr == "None"
NoError == [kind |-> "none", path |-> <<>>]

(***************************************************************************)
(* create_missing_folders                                                  *)
(***************************************************************************)

\* Bounds: path components, and the longest argument list.
Names == {"a", "b"}
MaxFolders == 2

\* Paths of one or two components.
Paths == {<<n>> : n \in Names} \cup {<<n, m>> : n \in Names, m \in Names}

Parent(p) == SubSeq(p, 1, Len(p) - 1)

\* The proper ancestors of p, and p itself.
Ancestors(p) == {SubSeq(p, 1, k) : k \in 1..(Len(p) - 1)}
UpTo(p) == Ancestors(p) \cup {p}

\* A filesystem: an entry lives in a directory.
WellFormed(f) ==
    \A p \in Paths : (f[p] # "none" /\ Len(p) > 1) => f[Parent(p)] = "dir"

FileSystems == {f \in [Paths -> {"none", "dir", "file"}] : WellFormed(f)}

FolderLists == UNION {[1..n -> Paths] : n \in 0..MaxFolders}

\* os.path.exists(folder)
PathExistsNever(f, p) == FALSE
PathExists(f, p) == f[p] # "none"

\* os.path.isdir(folder)
IsDirAlways(f, p) == TRUE
IsDir(f, p) == f[p] = "dir"

\* os.makedirs(folder): fails when the leaf exists or an ancestor is no
\* directory; otherwise creates the leaf and every missing ancestor.
MakedirsOk(f, p) ==
    /\ f[p] = "none"
    /\ \A q \in Ancestors(p) : f[q] # "file"

Makedirs(f, p) ==
    [q \in Paths |-> IF q \in UpTo(p) /\ f[q] = "none" THEN "dir" ELSE f[q]]

IdleFolders ==
    /\ fs = [p \in Paths |-> "none"]
    /\ fs0 = [p \in Paths |-> "none"]
    /\ fsFirst = [p \in Paths |-> "none"]
    /\ folders = <<>>
    /\ cf_i = 1
    /\ cf_pc = "idle"
    /\ cf_err = NoError
    /\ cf_call = 1

InitFolders ==
    /\ fs \in FileSystems
    /\ fs0 = fs
    /\ fsFirst = fs
    /\ folders \in FolderLists
    /\ cf_i = 1
    /\ cf_pc = "loop"
    /\ cf_err = NoError
    /\ cf_call = 1

\* One iteration of the for loop, on a path that does not exist.
CreateFolder ==
    /\ cf_pc = "loop"
    /\ cf_i <= Len(folders)
    /\ ~PathExists(fs, folders[cf_i])
    /\ IF MakedirsOk(fs, folders[cf_i])
       THEN /\ fs' = Makedirs(fs, folders[cf_i])
            /\ cf_i' = cf_i + 1
            /\ UNCHANGED <<cf_pc, cf_err>>
       ELSE /\ cf_pc' = "raised"
            /\ cf_err' = [kind |-> "makedirs", path |-> folders[cf_i]]
            /\ UNCHANGED <<fs, cf_i>>
    /\ UNCHANGED <<fs0, fsFirst, folders, cf_call>>
    /\ UNCHANGED exceptFolders

\* One iteration on a path that exists: a directory is skipped, anything
\* else raises OSError('Path {} exists, but is no directory!').
CheckFolder ==
    /\ cf_pc = "loop"
    /\ cf_i <= Len(folders)
    /\ PathExists(fs, folders[cf_i])
    /\ IF IsDir(fs, folders[cf_i])
       THEN /\ cf_i' = cf_i + 1
            /\ UNCHANGED <<cf_pc, cf_err>>
       ELSE /\ cf_pc' = "raised"
            /\ cf_err' = [kind |-> "no_directory", path |-> folders[cf_i]]
            /\ UNCHANGED cf_i
    /\ UNCHANGED <<fs, fs0, fsFirst, folders, cf_call>>
    /\ UNCHANGED exceptFolders

\* The loop is exhausted: the function returns None.
ReturnFolders ==
    /\ cf_pc = "loop"
    /\ cf_i > Len(folders)
    /\ cf_pc' = "returned"
    /\ UNCHANGED <<fs, fs0, fsFirst, folders, cf_i, cf_err, cf_call>>
    /\ UNCHANGED exceptFolders

\* The caller calls again with the same list.
CallFoldersAgain ==
    /\ cf_pc = "returned"
    /\ cf_call = 1
    /\ cf_call' = 2
    /\ cf_pc' = "loop"
    /\ cf_i' = 1
    /\ fs0' = fs
    /\ UNCHANGED <<fs, fsFirst, folders, cf_err>>
    /\ UNCHANGED exceptFolders

NextFolders ==
    \/ CreateFolder
    \/ CheckFolder
    \/ ReturnFolders
    \/ CallFoldersAgain

(***************************************************************************)
(* shuffle                                                                 *)
(***************************************************************************)

\* Bounds: the longest argument list and the largest sample count.
MaxArgs == 3
MaxSamples == 2

\* The rows an array may hold.
RowVals == {"r1", "r2"}

NoneArr == [none |-> TRUE, rows |-> <<>>]
Arr(rows) == [none |-> FALSE, rows |-> rows]
NonePerm == [none |-> TRUE, p |-> <<>>]
NoCount == 0 - 1
NoResult == [returned |-> FALSE, list |-> <<>>]

ArrayArgs == {NoneArr} \cup {Arr(r) : r \in UNION {[1..n -> RowVals] : n \in 0..MaxSamples}}
ArgLists == UNION {[1..n -> ArrayArgs] : n \in 0..MaxArgs}

\* np.random.permutation(n) draws one of these (1-based here).
Perms(n) == {p \in [1..n -> 1..n] : \A x, y \in 1..n : p[x] = p[y] => x = y}

\* a.shape[0]
Shape0(a) == Len(a.rows)

\* assert a.shape[0] == n_samples
AssertSkipped(a, n) == TRUE
AssertSameCount(a, n) == Shape0(a) = n

\* a[permutation] raises IndexError when an index is out of bounds.
IndexOk(a, p) == \A k \in 1..Len(p) : p[k] <= Shape0(a)

\* a[permutation]: row k of the result is row permutation[k] of a.
TakeSorted(a, p) ==
    Arr(SelectSeq(a.rows, LAMBDA r : r = "r1") \o SelectSeq(a.rows, LAMBDA r : r # "r1"))
Take(a, p) == Arr([k \in 1..Len(p) |-> a.rows[p[k]]])

IdleShuffle ==
    /\ arrays = <<>>
    /\ sh_i = 1
    /\ permutation = NonePerm
    /\ n_samples = NoCount
    /\ shuffled_arrays = <<>>
    /\ sh_pc = "idle"
    /\ sh_result = NoResult

InitShuffle ==
    /\ arrays \in ArgLists
    /\ sh_i = 1
    /\ permutation = NonePerm
    /\ n_samples = NoCount
    /\ shuffled_arrays = <<>>
    /\ sh_pc = "loop"
    /\ sh_result = NoResult

\* The assertion and the indexing of one iteration, once n_samples and the
\* permutation are n and p.
ShuffleBody(a, n, p) ==
    IF ~AssertSameCount(a, n)
    THEN /\ sh_pc' = "raised"
         /\ UNCHANGED <<sh_i, shuffled_arrays>>
    ELSE IF ~IndexOk(a, p)
    THEN /\ sh_pc' = "raised"
         /\ UNCHANGED <<sh_i, shuffled_arrays>>
    ELSE /\ shuffled_arrays' = Append(shuffled_arrays, Take(a, p))
         /\ sh_i' = sh_i + 1
         /\ UNCHANGED sh_pc

\* An iteration on None: appended as it is.
ShuffleNone ==
    /\ sh_pc = "loop"
    /\ sh_i <= Len(arrays)
    /\ arrays[sh_i].none
    /\ shuffled_arrays' = Append(shuffled_arrays, arrays[sh_i])
    /\ sh_i' = sh_i + 1
    /\ UNCHANGED <<arrays, permutation, n_samples, sh_pc, sh_result>>
    /\ UNCHANGED exceptShuffle

\* An iteration on the first array: its sample count is taken and the
\* permutation drawn.
ShuffleFirst ==
    /\ sh_pc = "loop"
    /\ sh_i <= Len(arrays)
    /\ ~arrays[sh_i].none
    /\ permutation.none
    /\ n_samples' = Shape0(arrays[sh_i])
    /\ \E p \in Perms(Shape0(arrays[sh_i])) :
          /\ permutation' = [none |-> FALSE, p |-> p]
          /\ ShuffleBody(arrays[sh_i], Shape0(arrays[sh_i]), p)
    /\ UNCHANGED <<arrays, sh_result>>
    /\ UNCHANGED exceptShuffle

\* An iteration on a later array.
ShuffleLater ==
    /\ sh_pc = "loop"
    /\ sh_i <= Len(arrays)
    /\ ~arrays[sh_i].none
    /\ ~permutation.none
    /\ ShuffleBody(arrays[sh_i], n_samples, permutation.p)
    /\ UNCHANGED <<arrays, permutation, n_samples, sh_result>>
    /\ UNCHANGED exceptShuffle

ShuffleReturn ==
    /\ sh_pc = "loop"
    /\ sh_i > Len(arrays)
    /\ sh_pc' = "returned"
    /\ sh_result' = [returned |-> TRUE, list |-> shuffled_arrays]
    /\ UNCHANGED <<arrays, sh_i, permutation, n_samples, shuffled_arrays>>
    /\ UNCHANGED exceptShuffle

NextShuffle ==
    \/ ShuffleNone
    \/ ShuffleFirst
    \/ ShuffleLater
    \/ ShuffleReturn

(***************************************************************************)
(* balance_thetas                                                          *)
(***************************************************************************)

\* Bounds: the number of theta-sets and the longest inner list.
MaxSets == 3
MaxLen == 3

\* The module runs under Python 2 and under Python 3 (its __future__ and
\* six imports).
PyVersions == {2, 3}

\* The inner lists passed: entry k of set j is labelled with j and k, so
\* that the result shows where each entry came from.
TypesList(j, len) == [k \in 1..len |-> <<"type", j, k>>]
ValuesList(j, len) == [k \in 1..len |-> <<"value", j, k>>]

MaxOf(S) == CHOOSE x \in S : \A y \in S : y <= x
MinOf(S) == CHOOSE x \in S : \A y \in S : x <= y

\* [lst[i % n_sets_before] for i in range(n_sets)]
Cycle(lst, n) == [k \in 1..n |-> lst[((k - 1) % Len(lst)) + 1]]

\* The index the statement  theta_sets_types[i] = [... for i in range(n_sets)]
\* writes to.  The right-hand side is evaluated before the subscript.  In
\* Python 3 the comprehension has a scope of its own and i is still the
\* loop's index.  In Python 2 the comprehension's i is the function's i, left
\* at n_sets - 1 (0-based) when the comprehension ends.
WriteIndex(version, i, n) == IF version = 2 THEN n ELSE i

\* The pair the for loop binds at position i: Python 2's zip built its list
\* of pairs before the loop; Python 3's zip reads the lists at each step.
ZipTypes(i) == IF py = 2 THEN orig_types[i] ELSE theta_sets_types[i]
ZipValues(i) == IF py = 2 THEN orig_values[i] ELSE theta_sets_values[i]

\* zip stops at the shorter list.
ZipLen == MinOf({Len(theta_sets_types), Len(theta_sets_values)})

IdleThetas ==
    /\ py = 3
    /\ theta_sets_types = <<>>
    /\ theta_sets_values = <<>>
    /\ orig_types = <<>>
    /\ orig_values = <<>>
    /\ n_sets = 0
    /\ bt_i = 1
    /\ bt_pc = "idle"
    /\ bt_err = "none"

InitThetas ==
    /\ py \in PyVersions
    /\ \E n \in 0..MaxSets :
         \E lt \in [1..n -> 0..MaxLen], lv \in [1..n -> 0..MaxLen] :
            /\ theta_sets_types = [j \in 1..n |-> TypesList(j, lt[j])]
            /\ theta_sets_values = [j \in 1..n |-> ValuesList(j, lv[j])]
    /\ orig_types = theta_sets_types
    /\ orig_values = theta_sets_values
    /\ n_sets = 0
    /\ bt_i = 1
    /\ bt_pc = "max"
    /\ bt_err = "none"

\* n_sets = max([len(thetas) for thetas in theta_sets_types]); max of an
\* empty list raises ValueError.
BalanceMax ==
    /\ bt_pc = "max"
    /\ IF Len(theta_sets_types) = 0
       THEN /\ bt_pc' = "raised"
            /\ bt_err' = "ValueError"
            /\ UNCHANGED n_sets
       ELSE /\ n_sets' = MaxOf({Len(theta_sets_types[j]) : j \in 1..Len(theta_sets_types)})
            /\ bt_pc' = "loop"
            /\ UNCHANGED bt_err
    /\ UNCHANGED <<py, theta_sets_types, theta_sets_values, orig_types, orig_values, bt_i>>
    /\ UNCHANGED exceptThetas

\* An iteration on a set that already has n_sets entries.
BalanceKeep ==
    /\ bt_pc = "loop"
    /\ bt_i <= ZipLen
    /\ Len(ZipTypes(bt_i)) = Len(ZipValues(bt_i))
    /\ Len(ZipTypes(bt_i)) = n_sets
    /\ bt_i' = bt_i + 1
    /\ UNCHANGED <<py, theta_sets_types, theta_sets_values, orig_types, orig_values,
                   n_sets, bt_pc, bt_err>>
    /\ UNCHANGED exceptThetas

\* An iteration whose assertion fails.
BalanceAssertFails ==
    /\ bt_pc = "loop"
    /\ bt_i <= ZipLen
    /\ Len(ZipTypes(bt_i)) # Len(ZipValues(bt_i))
    /\ bt_pc' = "raised"
    /\ bt_err' = "AssertionError"
    /\ UNCHANGED <<py, theta_sets_types, theta_sets_values, orig_types, orig_values,
                   n_sets, bt_i>>
    /\ UNCHANGED exceptThetas

\* An iteration on a shorter set: both lists are repeated and stored.  An
\* empty set makes the modulo raise ZeroDivisionError; an index outside the
\* outer list makes the store raise IndexError (the types may then already
\* be stored).
BalanceRepeat ==
    /\ bt_pc = "loop"
    /\ bt_i <= ZipLen
    /\ Len(ZipTypes(bt_i)) = Len(ZipValues(bt_i))
    /\ Len(ZipTypes(bt_i)) # n_sets
    /\ LET types == ZipTypes(bt_i)
           values == ZipValues(bt_i)
           at == WriteIndex(py, bt_i, n_sets)
       IN  IF Len(types) = 0
           THEN /\ bt_pc' = "raised"
                /\ bt_err' = "ZeroDivisionError"
                /\ UNCHANGED <<theta_sets_types, theta_sets_values, bt_i>>
           ELSE IF at > Len(theta_sets_types)
           THEN /\ bt_pc' = "raised"
                /\ bt_err' = "IndexError"
                /\ UNCHANGED <<theta_sets_types, theta_sets_values, bt_i>>
           ELSE IF at > Len(theta_sets_values)
           THEN /\ theta_sets_types' = [theta_sets_types EXCEPT ![at] = Cycle(types, n_sets)]
                /\ bt_pc' = "raised"
                /\ bt_err' = "IndexError"
                /\ UNCHANGED <<theta_sets_values, bt_i>>
           ELSE /\ theta_sets_types' = [theta_sets_types EXCEPT ![at] = Cycle(types, n_sets)]
                /\ theta_sets_values' = [theta_sets_values EXCEPT ![at] = Cycle(values, n_sets)]
                /\ bt_i' = bt_i + 1
                /\ UNCHANGED <<bt_pc, bt_err>>
    /\ UNCHANGED <<py, orig_types, orig_values, n_sets>>
    /\ UNCHANGED exceptThetas

BalanceReturn ==
    /\ bt_pc = "loop"
    /\ bt_i > ZipLen
    /\ bt_pc' = "returned"
    /\ UNCHANGED <<py, theta_sets_types, theta_sets_values, orig_types, orig_values,
                   n_sets, bt_i, bt_err>>
    /\ UNCHANGED exceptThetas

NextThetas ==
    \/ BalanceMax
    \/ BalanceKeep
    \/ BalanceAssertFails
    \/ BalanceRepeat
    \/ BalanceReturn

(***************************************************************************)
(* format_benchmark                                                        *)
(***************************************************************************)

\* Bounds: the number of parameters and the largest precision.
MaxParams == 2
MaxPrecision == 3

\* A value v stands for the number v / Scale.
Scale == 10 ^ 3
Pow10(n) == 10 ^ n

\* The values drawn: below, at and above both thresholds, of both signs.
Values == {0 - 150000, 0 - 100000, 0 - 5000, 0 - 500, 0 - 1, 0, 1, 19, 20, 21,
           199, 200, 500, 2000, 5000, 100000, 100001, 150000}

Keys == <<"k1", "k2", "k3">>

ParameterLists ==
    UNION {{[i \in 1..n |-> <<Keys[i], v[i]>>] : v \in [1..n -> Values]} : n \in 0..MaxParams}

\* value < 2. * 10. ** (- precision) or value > 100.
UseScientific(value, prec) ==
    \/ value * Pow10(prec) < 2 * Scale
    \/ value > 100 * Scale

\* str(key) + ' = {0:.<precision>e}' or ' = {0:.<precision>f}', as the
\* notation it is written in.
Separator == [kind |-> "sep", key |-> "", value |-> 0, prec |-> 0]
Entry(key, value, prec) ==
    [kind |-> IF UseScientific(value, prec) THEN "e" ELSE "f",
     key |-> key, value |-> value, prec |-> prec]

IdleFormat ==
    /\ parameters = <<>>
    /\ precision = 2
    /\ fb_i = 1
    /\ output = <<>>
    /\ fb_pc = "idle"

InitFormat ==
    /\ parameters \in ParameterLists
    /\ precision \in 0..MaxPrecision
    /\ fb_i = 1
    /\ output = <<>>
    /\ fb_pc = "loop"

\* The first iteration: no separator.
FormatFirst ==
    /\ fb_pc = "loop"
    /\ fb_i <= Len(parameters)
    /\ fb_i = 1
    /\ output' = Append(output, Entry(parameters[fb_i][1], parameters[fb_i][2], precision))
    /\ fb_i' = fb_i + 1
    /\ UNCHANGED <<parameters, precision, fb_pc>>
    /\ UNCHANGED exceptFormat

\* A later iteration: ', ' and the entry.
FormatNext ==
    /\ fb_pc = "loop"
    /\ fb_i <= Len(parameters)
    /\ fb_i > 1
    /\ output' = output \o <<Separator,
                             Entry(parameters[fb_i][1], parameters[fb_i][2], precision)>>
    /\ fb_i' = fb_i + 1
    /\ UNCHANGED <<parameters, precision, fb_pc>>
    /\ UNCHANGED exceptFormat

FormatReturn ==
    /\ fb_pc = "loop"
    /\ fb_i > Len(parameters)
    /\ fb_pc' = "returned"
    /\ UNCHANGED <<parameters, precision, fb_i, output>>
    /\ UNCHANGED exceptFormat

NextFormat ==
    \/ FormatFirst
    \/ FormatNext
    \/ FormatReturn

(***************************************************************************)
(* call_command                                                            *)
(***************************************************************************)

\* Bound: the largest exit status a child ends with by itself.
MaxExit == 7

\* proc.returncode: the exit status, or minus the signal that ended the child.
ReturnCodes == {0 - 9, 0 - 2} \cup (0..MaxExit)

Commands == {"exit 7", "ls | wc"}
LogFiles == {NoneStr, "run.log"}
OutTexts == {"", "some output"}
ErrTexts == {"", "some error"}

NoOutcome == [kind |-> "none", value |-> 0, cmd |-> "", log_file |-> NoneStr,
              out |-> "", err |-> ""]
Returned(code) == [NoOutcome EXCEPT !.kind = "return", !.value = code]
OtherError(kind) == [NoOutcome EXCEPT !.kind = kind]

\* RuntimeError('Calling command {} returned exit code {}. Output in file {}.')
\* and RuntimeError('Calling command {} returned exit code {}.\n\nStd
\* output:\n\n{}Error output:\n\n{}'), as the values formatted into them.
CommandFailed(c, code, file, out, err) ==
    [kind |-> "CommandFailed", value |-> code, cmd |-> c, log_file |-> file,
     out |-> out, err |-> err]

\* if exitcode != 0
IsFailurePositive(code) == code > 0
IsFailure(code) == code # 0

\* with io.open(log_file, 'wb') as log: the handle is closed when the block
\* is left, by its end or by an exception.
CloseAtBlockEndOnly(handle, byException) == IF byException THEN handle ELSE "closed"
LeaveWith(handle, byException) == "closed"

IdleCommand ==
    /\ cmd = ""
    /\ log_file = NoneStr
    /\ cc_pc = "idle"
    /\ logHandle = "none"
    /\ logContent = "absent"
    /\ child = "none"
    /\ exitcode = 0
    /\ captured = <<"", "">>
    /\ cc_result = NoOutcome

InitCommand ==
    /\ cmd \in Commands
    /\ log_file \in LogFiles
    /\ cc_pc = IF log_file # NoneStr THEN "open" ELSE "spawn"
    /\ logHandle = "none"
    /\ logContent \in {"absent", "old"}
    /\ child = "none"
    /\ exitcode = 0
    /\ captured = <<"", "">>
    /\ cc_result = NoOutcome

\* io.open(log_file, 'wb'): the file is created or truncated.
OpenLog ==
    /\ cc_pc = "open"
    /\ logHandle' = "open"
    /\ logContent' = "empty"
    /\ cc_pc' = "spawn"
    /\ UNCHANGED <<cmd, log_file, child, exitcode, captured, cc_result>>
    /\ UNCHANGED exceptCommand

\* io.open fails (a missing directory, no permission): IOError, no handle.
OpenLogFails ==
    /\ cc_pc = "open"
    /\ cc_pc' = "raised"
    /\ cc_result' = OtherError("IOError")
    /\ UNCHANGED <<cmd, log_file, logHandle, logContent, child, exitcode, captured>>
    /\ UNCHANGED exceptCommand

\* Popen(cmd, ..., shell=True)
Spawn ==
    /\ cc_pc = "spawn"
    /\ child' = "running"
    /\ cc_pc' = "wait"
    /\ UNCHANGED <<cmd, log_file, logHandle, logContent, exitcode, captured, cc_result>>
    /\ UNCHANGED exceptCommand

\* Popen fails (no process can be forked): OSError leaves the with block.
SpawnFails ==
    /\ cc_pc = "spawn"
    /\ cc_pc' = "raised"
    /\ cc_result' = OtherError("OSError")
    /\ logHandle' = IF log_file # NoneStr THEN LeaveWith(logHandle, TRUE) ELSE logHandle
    /\ UNCHANGED <<cmd, log_file, logContent, child, exitcode, captured>>
    /\ UNCHANGED exceptCommand

\* proc.communicate() and proc.returncode: the child ends; its output went
\* to the log file, or is read from the pipes.
Wait ==
    /\ cc_pc = "wait"
    /\ \E code \in ReturnCodes, out \in OutTexts, err \in ErrTexts :
          /\ exitcode' = code
          /\ IF log_file # NoneStr
             THEN /\ logContent' = IF out = "" /\ err = "" THEN "empty" ELSE "written"
                  /\ UNCHANGED captured
                  /\ cc_pc' = "leave"
             ELSE /\ captured' = <<out, err>>
                  /\ UNCHANGED logContent
                  /\ cc_pc' = "check"
    /\ child' = "exited"
    /\ UNCHANGED <<cmd, log_file, logHandle, cc_result>>
    /\ UNCHANGED exceptCommand

\* communicate() is interrupted: the exception leaves the with block.
WaitFails ==
    /\ cc_pc = "wait"
    /\ cc_pc' = "raised"
    /\ cc_result' = OtherError("Interrupted")
    /\ logHandle' = IF log_file # NoneStr THEN LeaveWith(logHandle, TRUE) ELSE logHandle
    /\ UNCHANGED <<cmd, log_file, logContent, child, exitcode, captured>>
    /\ UNCHANGED exceptCommand

\* The end of the with block.
EndWith ==
    /\ cc_pc = "leave"
    /\ logHandle' = LeaveWith(logHandle, FALSE)
    /\ cc_pc' = "check"
    /\ UNCHANGED <<cmd, log_file, logContent, child, exitcode, captured, cc_result>>
    /\ UNCHANGED exceptCommand

\* if exitcode != 0: raise RuntimeError(...)
RaiseCommandFailed ==
    /\ cc_pc = "check"
    /\ IsFailure(exitcode)
    /\ cc_pc' = "raised"
    /\ cc_result' = IF log_file # NoneStr
                    THEN CommandFailed(cmd, exitcode, log_file, "", "")
                    ELSE CommandFailed(cmd, exitcode, NoneStr, captured[1], captured[2])
    /\ UNCHANGED <<cmd, log_file, logHandle, logContent, child, exitcode, captured>>
    /\ UNCHANGED exceptCommand

\* return exitcode
ReturnExitcode ==
    /\ cc_pc = "check"
    /\ ~IsFailure(exitcode)
    /\ cc_pc' = "returned"
    /\ cc_result' = Returned(exitcode)
    /\ UNCHANGED <<cmd, log_file, logHandle, logContent, child, exitcode, captured>>
    /\ UNCHANGED exceptCommand

NextCommand ==
    \/ OpenLog
    \/ OpenLogFails
    \/ Spawn
    \/ SpawnFails
    \/ Wait
    \/ WaitFails
    \/ EndWith
    \/ RaiseCommandFailed
    \/ ReturnExitcode

(***************************************************************************)
(* load_and_check                                                          *)
(***************************************************************************)

\* Bounds: the number of entries of an array and the largest finite
\* magnitude.
MaxData == 3
MaxMag == 2

\* An entry of a float array.
NaN == <<"nan", 0>>
PosInf == <<"inf", 1>>
NegInf == <<"inf", 0 - 1>>
Fin(v) == <<"fin", v>>

Entries == {NaN, PosInf, NegInf} \cup {Fin(v) : v \in (0 - MaxMag)..MaxMag}
DataArrays == UNION {[1..n -> Entries] : n \in 0..MaxData}
Thresholds == (0 - 1)..MaxMag
FileNames == {NoneStr, "x.npy"}

\* np.isnan, np.isinf, np.isfinite
IsNaN(x) == x[1] = "nan"
IsInf(x) == x[1] = "inf"
IsFinite(x) == x[1] = "fin"

\* np.sum of the mask np.isnan(data), np.isinf(data) or np.isfinite(data).
RECURSIVE CountKind(_, _)
CountKind(d, kind) ==
    IF d = <<>> THEN 0
    ELSE (IF d[1][1] = kind THEN 1 ELSE 0) + CountKind(Tail(d), kind)

\* a < b on floats that are not NaN.
Lt(a, b) ==
    IF a = NegInf THEN b # NegInf
    ELSE IF a = PosInf THEN FALSE
    ELSE b = PosInf \/ (IsFinite(b) /\ a[2] < b[2])

\* np.fmin and np.fmax: a NaN operand is ignored when the other is a number.
Fmin(a, b) == IF IsNaN(a) THEN b ELSE IF IsNaN(b) THEN a ELSE IF Lt(b, a) THEN b ELSE a
Fmax(a, b) == IF IsNaN(a) THEN b ELSE IF IsNaN(b) THEN a ELSE IF Lt(a, b) THEN b ELSE a

\* np.nanmin(data) and np.nanmax(data) of a non-empty array: the reduction
\* by fmin / fmax (NaN when every entry is NaN).
RECURSIVE NanMin(_)
NanMin(d) == IF Len(d) = 1 THEN d[1] ELSE Fmin(d[1], NanMin(Tail(d)))
RECURSIVE NanMax(_)
NanMax(d) == IF Len(d) = 1 THEN d[1] ELSE Fmax(d[1], NanMax(Tail(d)))

\* np.abs(x) > warning_threshold: False for NaN, True for an infinity.
AbsGt(x, thr) ==
    IF IsNaN(x) THEN FALSE
    ELSE IF IsInf(x) THEN TRUE
    ELSE (IF x[2] < 0 THEN 0 - x[2] ELSE x[2]) > thr

\* np.abs(smallest) > warning_threshold or np.abs(largest) > warning_threshold
LargestOutOfRange(lo, hi, thr) == AbsGt(hi, thr)
OutOfRange(lo, hi, thr) == AbsGt(lo, thr) \/ AbsGt(hi, thr)

\* n_nans + n_infs > 0
Anomaly(nans, infs) == nans + infs > 0

Warning(kind, nans, infs, finite, lo, hi) ==
    [kind |-> kind, filename |-> filename, n_nans |-> nans, n_infs |-> infs,
     n_finite |-> finite, smallest |-> lo, largest |-> hi]

NoLoad == [returned |-> FALSE, none |-> FALSE, data |-> <<>>]

IdleLoad ==
    /\ filename = NoneStr
    /\ loadable = FALSE
    /\ file_data = <<>>
    /\ warning_threshold = 0
    /\ data = <<>>
    /\ lc_pc = "idle"
    /\ warnings = <<>>
    /\ smallest = NaN
    /\ largest = NaN
    /\ lc_result = NoLoad

InitLoad ==
    /\ filename \in FileNames
    /\ loadable \in BOOLEAN
    /\ file_data \in DataArrays
    /\ (filename = NoneStr \/ ~loadable) => file_data = <<>>
    /\ filename = NoneStr => ~loadable
    /\ warning_threshold \in Thresholds
    /\ data = <<>>
    /\ lc_pc = "start"
    /\ warnings = <<>>
    /\ smallest = NaN
    /\ largest = NaN
    /\ lc_result = NoLoad

\* if filename is None: return None
LoadNone ==
    /\ lc_pc = "start"
    /\ filename = NoneStr
    /\ lc_pc' = "returned"
    /\ lc_result' = [returned |-> TRUE, none |-> TRUE, data |-> <<>>]
    /\ UNCHANGED <<filename, loadable, file_data, warning_threshold, data, warnings,
                   smallest, largest>>
    /\ UNCHANGED exceptLoad

\* data = np.load(filename); a file that cannot be read raises IOError.
Load ==
    /\ lc_pc = "start"
    /\ filename # NoneStr
    /\ IF loadable
       THEN /\ data' = file_data
            /\ lc_pc' = "count"
       ELSE /\ lc_pc' = "raised"
            /\ UNCHANGED data
    /\ UNCHANGED <<filename, loadable, file_data, warning_threshold, warnings,
                   smallest, largest, lc_result>>
    /\ UNCHANGED exceptLoad

\* The three counts and the first warning.
Count ==
    /\ lc_pc = "count"
    /\ LET n_nans == CountKind(data, "nan")
           n_infs == CountKind(data, "inf")
           n_finite == CountKind(data, "fin")
       IN  warnings' = IF Anomaly(n_nans, n_infs)
                       THEN Append(warnings, Warning("nans_infs", n_nans, n_infs, n_finite, NaN, NaN))
                       ELSE warnings
    /\ lc_pc' = "minmax"
    /\ UNCHANGED <<filename, loadable, file_data, warning_threshold, data,
                   smallest, largest, lc_result>>
    /\ UNCHANGED exceptLoad

\* smallest = np.nanmin(data); largest = np.nanmax(data).  On an array with
\* no entries the reduction raises ValueError.
MinMax ==
    /\ lc_pc = "minmax"
    /\ IF Len(data) = 0
       THEN /\ lc_pc' = "raised"
            /\ UNCHANGED <<smallest, largest>>
       ELSE /\ smallest' = NanMin(data)
            /\ largest' = NanMax(data)
            /\ lc_pc' = "range"
    /\ UNCHANGED <<filename, loadable, file_data, warning_threshold, data, warnings,
                   lc_result>>
    /\ UNCHANGED exceptLoad

\* The second warning.
Range ==
    /\ lc_pc = "range"
    /\ warnings' = IF OutOfRange(smallest, largest, warning_threshold)
                   THEN Append(warnings, Warning("large_numbers", 0, 0, 0, smallest, largest))
                   ELSE warnings
    /\ lc_pc' = "return"
    /\ UNCHANGED <<filename, loadable, file_data, warning_threshold, data,
                   smallest, largest, lc_result>>
    /\ UNCHANGED exceptLoad

\* return data
LoadReturn ==
    /\ lc_pc = "return"
    /\ lc_pc' = "returned"
    /\ lc_result' = [returned |-> TRUE, none |-> FALSE, data |-> data]
    /\ UNCHANGED <<filename, loadable, file_data, warning_threshold, data, warnings,
                   smallest, largest>>
    /\ UNCHANGED exceptLoad

NextLoad ==
    \/ LoadNone
    \/ Load
    \/ Count
    \/ MinMax
    \/ Range
    \/ LoadReturn

(***************************************************************************)
(* The specifications: one per function.                                   *)
(***************************************************************************)

StartFolders ==
    InitFolders /\ IdleShuffle /\ IdleThetas /\ IdleFormat /\ IdleCommand /\ IdleLoad

SpecFolders == StartFolders /\ [][NextFolders]_vars

StartShuffle ==
    IdleFolders /\ InitShuffle /\ IdleThetas /\ IdleFormat /\ IdleCommand /\ IdleLoad

SpecShuffle == StartShuffle /\ [][NextShuffle]_vars

StartThetas ==
    IdleFolders /\ IdleShuffle /\ InitThetas /\ IdleFormat /\ IdleCommand /\ IdleLoad

SpecThetas == StartThetas /\ [][NextThetas]_vars

StartFormat ==
    IdleFolders /\ IdleShuffle /\ IdleThetas /\ InitFormat /\ IdleCommand /\ IdleLoad

SpecFormat == StartFormat /\ [][NextFormat]_vars

StartCommand ==
    IdleFolders /\ IdleShuffle /\ IdleThetas /\ IdleFormat /\ InitCommand /\ IdleLoad

SpecCommand == StartCommand /\ [][NextCommand]_vars

StartLoad ==
    IdleFolders /\ IdleShuffle /\ IdleThetas /\ IdleFormat /\ IdleCommand /\ InitLoad

SpecLoad == StartLoad /\ [][NextLoad]_vars

(***************************************************************************)
(* The claims.                                                             *)
(***************************************************************************)

\* ---- balance_thetas ----

ExpectedSets == MaxOf({Len(orig_types[j]) : j \in 1..Len(orig_types)})
CyclicCopy(result, original, n) ==
    /\ Len(result) = n
    /\ \A k \in 1..n : result[k] = original[((k - 1) % Len(original)) + 1]

\* C1: when balance_thetas returns, every theta-set j holds n_sets entries,
\* entry k being the original entry k mod L_j of the same set j, for the
\* types and for the values: each set is repeated cyclically and written
\* back at its own position.
C1_WrittenBackAtOwnPosition ==
    bt_pc = "returned" =>
        /\ Len(theta_sets_types) = Len(orig_types)
        /\ Len(theta_sets_values) = Len(orig_values)
        /\ \A j \in 1..Len(orig_types) :
              /\ CyclicCopy(theta_sets_types[j], orig_types[j], ExpectedSets)
              /\ CyclicCopy(theta_sets_values[j], orig_values[j], ExpectedSets)

\* ---- format_benchmark ----

Abs(v) == IF v < 0 THEN 0 - v ELSE v

\* C2: every entry is written in scientific notation if and only if
\* abs(value) < 2 * 10^-precision or abs(value) > 100, and in fixed-point
\* notation otherwise.
C2_NotationByAbsoluteValue ==
    \A k \in 1..Len(output) :
        output[k].kind # "sep" =>
            (output[k].kind = "e" <=>
                \/ Abs(output[k].value) * Pow10(precision) < 2 * Scale
                \/ Abs(output[k].value) > 100 * Scale)

\* ---- shuffle ----

Given == {j \in 1..Len(arrays) : ~arrays[j].none}
FirstGiven == MinOf(Given)
SameCounts == \A i \in Given, j \in Given : Shape0(arrays[i]) = Shape0(arrays[j])
CommonCount == IF Given = {} THEN 0 ELSE Shape0(arrays[FirstGiven])

\* C3: on arguments whose arrays all have the same sample count n the call
\* returns a list as long as the argument list, None where the argument is
\* None, and there is one permutation p of 0..n-1 with
\* output_j[k] = input_j[p[k]] for every array j and every k.
C3_OnePermutationForAll ==
    (sh_pc \in {"returned", "raised"} /\ SameCounts) =>
        /\ sh_pc = "returned"
        /\ sh_result.returned
        /\ Len(sh_result.list) = Len(arrays)
        /\ \A j \in 1..Len(arrays) : arrays[j].none => sh_result.list[j] = NoneArr
        /\ \E p \in Perms(CommonCount) :
              \A j \in Given :
                 /\ ~sh_result.list[j].none
                 /\ Len(sh_result.list[j].rows) = CommonCount
                 /\ \A k \in 1..CommonCount :
                       sh_result.list[j].rows[k] = arrays[j].rows[p[k]]

\* Two arrays of two rows and a None between them, shuffled by the swap.
C3_Witness ==
    /\ sh_pc = "returned"
    /\ Len(arrays) = 3
    /\ arrays[2].none
    /\ arrays[1] = Arr(<<"r1", "r2">>)
    /\ arrays[3] = Arr(<<"r2", "r1">>)
    /\ sh_result.list = <<Arr(<<"r2", "r1">>), NoneArr, Arr(<<"r1", "r2">>)>>

Mismatch == \E j \in Given : Shape0(arrays[j]) # Shape0(arrays[FirstGiven])

\* C4: the call never gets past an array whose sample count differs from
\* that of the first array: it raises, and returns no result, whenever such
\* an argument is present, wherever the None arguments stand.
C4_MismatchRaises ==
    /\ sh_pc = "loop" =>
          \A j \in Given : j < sh_i => Shape0(arrays[j]) = Shape0(arrays[FirstGiven])
    /\ (sh_pc \in {"returned", "raised"} /\ Mismatch) => sh_pc = "raised"
    /\ sh_pc = "raised" => ~sh_result.returned

\* None, an array, None, and a longer array.
C4_Witness ==
    /\ sh_pc = "raised"
    /\ Len(arrays) = 3
    /\ ~arrays[1].none
    /\ arrays[2].none
    /\ ~arrays[3].none
    /\ Shape0(arrays[1]) < Shape0(arrays[3])
    /\ ~sh_result.returned

\* ---- create_missing_folders ----

\* C5: an iteration on a path that exists but is no directory raises the
\* error naming that path and changes nothing; an iteration changes the
\* filesystem only when its path does not exist, and then the path and its
\* missing parents, and nothing else, become directories.
C5_ConflictOrCreate ==
    [][(cf_pc = "loop" /\ cf_i <= Len(folders)) =>
          LET f == folders[cf_i]
          IN  /\ fs[f] = "file" =>
                    /\ cf_pc' = "raised"
                    /\ cf_err' = [kind |-> "no_directory", path |-> f]
                    /\ fs' = fs
              /\ fs' # fs =>
                    /\ fs[f] = "none"
                    /\ \A q \in Paths :
                          fs'[q] = IF q \in UpTo(f) /\ fs[q] = "none" THEN "dir" ELSE fs[q]
              /\ (fs[f] = "none" /\ \A q \in Ancestors(f) : fs[q] # "file") =>
                    \A q \in UpTo(f) : fs'[q] = "dir"]_vars

\* A nested path was created with its parent, and a later path of the list
\* is a regular file.
C5_Witness ==
    /\ cf_pc = "raised"
    /\ cf_err.kind = "no_directory"
    /\ cf_call = 1
    /\ fsFirst[<<"a">>] = "none"
    /\ fs[<<"a">>] = "dir"
    /\ fs[<<"a", "b">>] = "dir"
    /\ cf_err.path = <<"b">>

\* C6: a second call on the list of a call that returned raises nothing and
\* leaves the filesystem as the first call left it; a call on paths that
\* are all directories already changes nothing.
C6_Idempotent ==
    /\ cf_call = 2 => (cf_pc # "raised" /\ fs = fs0)
    /\ (\A k \in 1..Len(folders) : fs0[folders[k]] = "dir") =>
          (cf_pc # "raised" /\ fs = fs0)

\* The second call has returned, after a first call that created folders.
C6_Witness ==
    /\ cf_call = 2
    /\ cf_pc = "returned"
    /\ Len(folders) = 2
    /\ fsFirst[folders[1]] = "none"
    /\ fsFirst[folders[2]] = "none"
    /\ fs # fsFirst

\* ---- call_command ----

\* C7: the call raises CommandFailed if and only if the child ended with a
\* non-zero code; the error carries that code and the command, and the log
\* file's path or the captured output and error text; when the child ended
\* with code 0 the call returns, and whatever it returns is 0.
C7_FailedIffNonZero ==
    cc_pc \in {"returned", "raised"} =>
        /\ cc_result.kind = "CommandFailed" <=> (child = "exited" /\ exitcode # 0)
        /\ cc_result.kind = "CommandFailed" =>
              /\ cc_pc = "raised"
              /\ cc_result.value = exitcode
              /\ cc_result.cmd = cmd
              /\ IF log_file # NoneStr
                 THEN cc_result.log_file = log_file
                 ELSE cc_result.out = captured[1] /\ cc_result.err = captured[2]
        /\ (child = "exited" /\ exitcode = 0) => cc_pc = "returned"
        /\ cc_pc = "returned" => (cc_result = Returned(0) /\ exitcode = 0)

\* "exit 7" without a log file.
C7_Witness ==
    /\ cc_pc = "raised"
    /\ cmd = "exit 7"
    /\ log_file = NoneStr
    /\ cc_result = CommandFailed("exit 7", 7, NoneStr, "some output", "some error")

\* C9: with a log file, the file is opened (created or truncated) before
\* the child is spawned, the handle is open while the child runs, and it is
\* closed on every way out of the call: when it returns, when it raises
\* CommandFailed, and when spawning or waiting fails.
C9_LogHandleScoped ==
    /\ log_file = NoneStr => logHandle = "none"
    /\ (log_file # NoneStr /\ child # "none") => logContent \notin {"absent", "old"}
    /\ (log_file # NoneStr /\ child = "running" /\ cc_pc = "wait") => logHandle = "open"
    /\ cc_pc \in {"check", "returned", "raised"} => logHandle # "open"

\* Waiting for the child failed while the log file was open.
C9_Witness ==
    /\ cc_pc = "raised"
    /\ log_file # NoneStr
    /\ cc_result.kind = "Interrupted"
    /\ child = "running"
    /\ logHandle = "closed"

\* ---- load_and_check ----

\* C8: load_and_check(None) returns None and loads nothing; on a file that
\* can be loaded the call never fails and returns the array as loaded,
\* whatever its entries, none at all included.
C8_NeverFailsOnLoadableFile ==
    /\ lc_pc = "raised" => (filename # NoneStr /\ ~loadable)
    /\ lc_pc = "returned" =>
          IF filename = NoneStr
          THEN lc_result.none /\ data = <<>>
          ELSE ~lc_result.none /\ lc_result.data = file_data

Checked == filename # NoneStr /\ loadable /\ lc_pc \in {"returned", "raised"}
Emitted(kind) == \E k \in 1..Len(warnings) : warnings[k].kind = kind
EntriesOfKind(kinds) == {k \in 1..Len(file_data) : file_data[k][1] \in kinds}

\* Whether the least or the greatest of the entries at the positions S
\* exceeds the threshold in absolute value.
ExtremeExceeds(S) ==
    /\ S # {}
    /\ LET lo == CHOOSE i \in S : \A j \in S : ~Lt(file_data[j], file_data[i])
           hi == CHOOSE i \in S : \A j \in S : ~Lt(file_data[i], file_data[j])
       IN  \/ AbsGt(file_data[lo], warning_threshold)
           \/ AbsGt(file_data[hi], warning_threshold)

FirstWarningRule ==
    Emitted("nans_infs") <=> Cardinality(EntriesOfKind({"nan", "inf"})) > 0

\* C10 as stated: the first warning is emitted if and only if there is a NaN
\* or Inf entry, and the second if and only if the minimum or the maximum
\* over the finite entries exceeds the threshold in absolute value.
C10_RangeOverFiniteEntries ==
    Checked =>
        /\ FirstWarningRule
        /\ Emitted("large_numbers") <=> ExtremeExceeds(EntriesOfKind({"fin"}))

\* C10 as amended: the first warning is emitted if and only if there is a
\* NaN or Inf entry, and the second if and only if the minimum or the
\* maximum over the entries that are not NaN, the infinite ones included,
\* exceeds the threshold in absolute value.
C10_RangeOverNonNaNEntries ==
    Checked =>
        /\ FirstWarningRule
        /\ Emitted("large_numbers") <=> ExtremeExceeds(EntriesOfKind({"fin", "inf"}))

\* NaN beside finite entries within the threshold: the first warning only.
C10_Witness ==
    /\ lc_pc = "returned"
    /\ file_data = <<NaN, Fin(1), Fin(0 - 1)>>
    /\ warning_threshold = 1
    /\ Emitted("nans_infs")
    /\ ~Emitted("large_numbers")

====
